---- MODULE Spec2Model ----
(***************************************************************************)
(* Model of med_solar_simulation.py: the steady-state multi-effect         *)
(* desalination solver (MEDModel.solve) and the hourly solar/storage       *)
(* dispatch simulator (SolarIntegratedMEDModel.simulate_daily_operation).  *)
(*                                                                         *)
(* The program computes with IEEE doubles; the model computes with         *)
(* integers in fixed-point units, named at each definition:                *)
(*   temperatures      1e-3 degC          mass flows     1e-4 kg/s         *)
(*   latent heat       100 J/kg           specific heat  0.1 J/(kg K)      *)
(*   heat rates        W                  energies       J                 *)
(*   salinity          ppm                areas          0.01 m2           *)
(*   ratios (GOR, As, WRR)  1e-3                                           *)
(* Every quotient is floored.  The powers and energies of the dispatch     *)
(* are exact in these units for the inputs enumerated below (see           *)
(* DispatchParams).                                                        *)
(***************************************************************************)
EXTENDS Integers, Sequences, FiniteSets, TLC

VARIABLES
    params,                 \* MEDParameters record
    \* ---- SolarIntegratedMEDModel ----
    Q_nominal_W,            \* self.Q_nominal_W                    [W]
    GOR_nominal,            \* self.GOR of the dispatch model      [1e-3]
    storage_capacity_J,     \* self.storage_capacity_J             [J]
    current_storage_J,      \* local of simulate_daily_operation   [J]
    daily_distillate_kg,    \* accumulator                         [1e-9 kg]
    daily_solar_collection_J, \* accumulator                       [J]
    hourly_results,         \* list of hourly records
    final_results,          \* dict returned by simulate_daily_operation
    \* ---- MEDModel ----
    T_effect,               \* self.T_effect[0..n-1]   [1e-3 degC]
    M_feed,                 \* self.M_feed             [1e-4 kg/s]
    M_brine,                \* self.M_brine            [1e-4 kg/s]
    M_vapor,                \* self.M_vapor            [1e-4 kg/s]
    S_brine,                \* self.S_brine            [ppm]
    A_effect,               \* self.A_effect           [0.01 m2]
    M_steam,                \* self.M_steam            [1e-4 kg/s]
    M_total_distillate,     \* self.M_total_distillate [1e-4 kg/s]
    GOR,                    \* self.GOR                [1e-3]
    As,                     \* self.As                 [1e-3 m2/(kg/s)]
    S_feed,                 \* local S_feed[0..n-1]    [ppm]
    T_feed_in,              \* local T_feed_in         [1e-3 degC]
    M_vapor_preheat,        \* local M_vapor_preheat   [1e-4 kg/s]
    M_vapor_available,      \* local, last forward iteration [1e-4 kg/s]
    Q_input,                \* local, last forward iteration [W]
    results,                \* dict returned by solve
    i,                      \* loop index of solve
    pc                      \* position in solve / simulate_daily_operation

dvars == <<Q_nominal_W, GOR_nominal, storage_capacity_J, current_storage_J,
           daily_distillate_kg, daily_solar_collection_J, hourly_results,
           final_results>>

svars == <<T_effect, M_feed, M_brine, M_vapor, S_brine, A_effect, M_steam,
           M_total_distillate, GOR, As, S_feed, T_feed_in, M_vapor_preheat,
           M_vapor_available, Q_input, results, i>>

vars == <<params, pc, dvars, svars>>

(***************************************************************************)
(* Bounds of the model.                                                    *)
(***************************************************************************)
MaxHours == 3          \* length of the solar_resource sequence explored
MaxIrradiance == 3     \* irradiance values 0..MaxIrradiance  [W/m2]

(***************************************************************************)
(* Integer helpers.                                                        *)
(***************************************************************************)
Min(a, b) == IF a <= b THEN a ELSE b

Max(a, b) == IF a >= b THEN a ELSE b


(* floor(a*b/c) and the remainder, computed bit by bit on b so that no     *)
(* intermediate value leaves the 32-bit range: a, b >= 0, 0 < c < 2^30.    *)
RECURSIVE MulDivRem(_, _, _)
MulDivRem(a, b, c) ==
    IF b = 0 THEN <<0, 0>>
    ELSE LET h  == MulDivRem(a, b \div 2, c)
             q2 == 2 * h[1] + (2 * h[2]) \div c
             r2 == (2 * h[2]) % c
         IN  IF b % 2 = 1
             THEN <<q2 + (a \div c) + (r2 + (a % c)) \div c, (r2 + (a % c)) % c>>
             ELSE <<q2, r2>>

Abs(a) == IF a < 0 THEN -a ELSE a

(* floor(a*b/c) for integers a, b of either sign and c > 0 *)
SignedMulDiv(a, b, c) ==
    LET qr == MulDivRem(Abs(a), Abs(b), c)
    IN  IF a = 0 \/ b = 0 \/ ((a < 0) = (b < 0))
        THEN qr[1]
        ELSE IF qr[2] = 0 THEN -qr[1] ELSE -qr[1] - 1

(* The program's real product and quotient a*b/c, floored to the           *)
(* fixed-point grid.  The operands are evaluated once, before the          *)
(* recursion of MulDivRem.                                                 *)
MulDiv(a, b, c) ==
    CHOOSE q \in {SignedMulDiv(x, y, z) : x \in {a}, y \in {b}, z \in {c}} : TRUE

(***************************************************************************)
(* Property functions (MEDModel).  T in 1e-3 degC.                         *)
(***************************************************************************)
(* T^2 in 0.01 degC^2 *)
TSquared(T) == MulDiv(T \div 10, T \div 10, 100)

(* T^3 in degC^3 *)
TCubed(T) == MulDiv(TSquared(T), T \div 10, 10000)

(* 2.501e6 - 2.369e3*T + 1.676*T^2 - 1.517e-2*T^3   [100 J/kg] *)
_latent_heat(T) ==
    25010 - MulDiv(2369, T, 100000) + MulDiv(1676, TSquared(T), 10000000)
          - MulDiv(1517, TCubed(T), 10000000)

(***************************************************************************)
(* SolarIntegratedMEDModel                                                 *)
(***************************************************************************)
J_TO_KWH == 3600000

SECONDS_PER_HOUR == 3600

(* __init__: params.storage_capacity_kWh * 3600   [J] *)
StorageCapacityJ(kWh) == kWh * 3600

(* _solar_heat_input: irradiance * solar_collector_area * solar_efficiency *)
(* [W]; solar_efficiency is held in tenths.                                *)
_solar_heat_input(irradiance) ==
    (irradiance * params.solar_collector_area * params.solar_efficiency) \div 10

(* mutant of SolarCoversDemand: a strict comparison *)
SolarExceedsDemand(Q_solar_W) == Q_solar_W > Q_nominal_W

(* the test of case 1: solar power covers the demand *)
SolarCoversDemand(Q_solar_W) == Q_solar_W >= Q_nominal_W

(* mutant of ChargeStorage: the excess is stored without the cap *)
ChargeStorageUncapped(storage_J, Q_excess_J) == storage_J + Q_excess_J

(* case 1: min(storage_capacity_J, current_storage_J + Q_excess_J) *)
ChargeStorage(storage_J, Q_excess_J) ==
    Min(storage_capacity_J, storage_J + Q_excess_J)

(* The energy management logic of one hour: the mode, the heat delivered   *)
(* to the plant Q_med_W and the new storage level.                         *)
EnergyManagement(Q_solar_W, storage_J) ==
    IF SolarCoversDemand(Q_solar_W)
    THEN [mode |-> "Solar + Charge", Q_med_W |-> Q_nominal_W,
          storage |-> ChargeStorage(storage_J,
                          (Q_solar_W - Q_nominal_W) * SECONDS_PER_HOUR)]
    ELSE IF Q_solar_W > 0 /\ Q_solar_W < Q_nominal_W
    THEN LET Q_draw_J == (Q_nominal_W - Q_solar_W) * SECONDS_PER_HOUR
         IN  IF storage_J >= Q_draw_J
             THEN [mode |-> "Solar + Draw", Q_med_W |-> 0,
                   storage |-> storage_J - Q_draw_J]
             ELSE [mode |-> "Solar + Partial Draw",
                   Q_med_W |-> Q_solar_W + storage_J \div SECONDS_PER_HOUR,
                   storage |-> 0]
    ELSE IF Q_solar_W = 0 /\ storage_J > 0
    THEN LET Q_demand_J == Q_nominal_W * SECONDS_PER_HOUR
         IN  IF storage_J >= Q_demand_J
             THEN [mode |-> "Storage Only", Q_med_W |-> Q_nominal_W,
                   storage |-> storage_J - Q_demand_J]
             ELSE [mode |-> "Partial Storage",
                   Q_med_W |-> storage_J \div SECONDS_PER_HOUR,
                   storage |-> 0]
    ELSE [mode |-> "Off", Q_med_W |-> 0, storage |-> storage_J]

(* Distillate rate of the hour [1e-9 kg/s]:                                *)
(* Q_med_W / latent_heat(T_steam) * GOR when Q_med_W > 0 and GOR > 0.      *)
DistillateRate(Q_med_W) ==
    IF Q_med_W > 0 /\ GOR_nominal > 0
    THEN LET M_steam_actual ==
                 MulDiv(Q_med_W, 10000000, _latent_heat(params.T_steam))
         IN  MulDiv(M_steam_actual, GOR_nominal, 1000)
    ELSE 0

(* record field Q_med_MW = Q_med_W / 1e6               [1e-6 MW] *)
QmedMW(Q_med_W) == MulDiv(Q_med_W, 1000000, 1000000)

(* record field storage_MWh = J / J_TO_KWH / 1000      [1e-6 MWh] *)
StorageMWh(storage_J) == MulDiv(storage_J, 1000, J_TO_KWH)

(* One iteration of the loop over solar_resource. *)
SimulateHour(irradiance) ==
    /\ Len(hourly_results) < MaxHours
    /\ LET Q_solar_W == _solar_heat_input(irradiance)
           em        == EnergyManagement(Q_solar_W, current_storage_J)
           M_distillate_kg_s == DistillateRate(em.Q_med_W)
       IN  /\ daily_solar_collection_J' =
                  daily_solar_collection_J + Q_solar_W * SECONDS_PER_HOUR
           /\ current_storage_J' = em.storage
           /\ daily_distillate_kg' =
                  daily_distillate_kg + M_distillate_kg_s * SECONDS_PER_HOUR
           /\ hourly_results' = Append(hourly_results,
                  [hour            |-> Len(hourly_results),
                   irradiance_W_m2 |-> irradiance,
                   Q_med_MW        |-> QmedMW(em.Q_med_W),
                   storage_MWh     |-> StorageMWh(em.storage),
                   distillate_kg_s |-> M_distillate_kg_s,
                   mode            |-> em.mode])
    /\ pc = "loop"
    /\ UNCHANGED <<params, pc, Q_nominal_W, GOR_nominal, storage_capacity_J,
                   final_results, svars>>

(* The end of the input sequence: simulate_daily_operation returns. *)
ReturnDaily ==
    /\ pc = "loop"
    /\ pc' = "returned"
    /\ final_results' = [daily_distillate         |-> daily_distillate_kg,
                         Q_nominal_W              |-> Q_nominal_W,
                         daily_solar_collection_J |-> daily_solar_collection_J,
                         hourly_data              |-> hourly_results]
    /\ UNCHANGED <<params, Q_nominal_W, GOR_nominal, storage_capacity_J,
                   current_storage_J, daily_distillate_kg,
                   daily_solar_collection_J, hourly_results, svars>>

(***************************************************************************)
(* MEDModel                                                                *)
(***************************************************************************)
n == params.n_effects

Effects == 0 .. (n - 1)

Zeros == [k \in Effects |-> 0]

(* 4187 - 7.55*T + 0.046*T^2 + (S/1000)*(-54.6 + 0.38*T)   [0.1 J/(kg K)] *)
_specific_heat_capacity(T, S) ==
    41870 - MulDiv(755, T, 10000) + MulDiv(46, TSquared(T), 10000)
          + MulDiv(S, MulDiv(38, T, 10) - 546000, 1000000)

(* 2000 + 40*T   [W/(m2 K)] *)
_heat_transfer_coefficient_evaporator(T) == 2000 + MulDiv(40, T, 1000)

(* (total_T_drop - n*BPE) / (n + 1)   [1e-3 degC] *)
delta_T_total ==
    ((params.T_steam - params.T_cw) - n * params.BPE) \div (n + 1)

(* mutant of LadderTemperature: the effect index is dropped *)
LadderTemperatureFlat(k) == params.T_steam - delta_T_total - params.BPE

(* T_effect[k] = T_steam - (k + 1)*delta_T_total - BPE *)
LadderTemperature(k) ==
    params.T_steam - (k + 1) * delta_T_total - params.BPE

(* M_feed * 0.12 / 5.14 *)
SteamEstimate == MulDiv(MulDiv(params.M_feed, 12, 100), 100, 514)

(* a mass flow [1e-4 kg/s] times a specific heat [0.1 J/(kg K)] times a    *)
(* temperature difference [1e-3 K], in W                                   *)
SensibleHeat(M, Cp, dT) == MulDiv(MulDiv(M, Cp, 10000), dT, 10000)

(* a mass flow [1e-4 kg/s] times a latent heat [100 J/kg], in W *)
LatentPower(M, lambda) == MulDiv(M, lambda, 100)

(* a heat rate [W] over a latent heat [100 J/kg], in 1e-4 kg/s *)
VaporMass(Q, lambda) == MulDiv(Q, 100, lambda)

(* numpy's float64 quotient a/b scaled by scale: nan for 0/0, inf for x/0 *)
FloatDiv(a, b, scale) ==
    IF b # 0 THEN [kind |-> "finite", value |-> MulDiv(a, scale, b)]
    ELSE IF a = 0 THEN [kind |-> "nan", value |-> 0]
    ELSE [kind |-> "inf", value |-> 0]

RECURSIVE SumTo(_, _)
SumTo(f, k) == IF k < 0 THEN 0 ELSE f[k] + SumTo(f, k - 1)

(* np.sum over the effects *)
Sum(f) == SumTo(f, n - 1)

(* lines 72-91: feed distribution, temperature ladder, preheat set-up *)
TemperatureLadder ==
    /\ pc = "solve"
    /\ M_feed' = [M_feed EXCEPT ![0] = params.M_feed]
    /\ S_feed' = [k \in Effects |-> params.S_feed]
    /\ T_effect' = [k \in Effects |-> LadderTemperature(k)]
    /\ T_feed_in' = [Zeros EXCEPT ![0] = params.T_feed]
    /\ M_vapor_preheat' = Zeros
    /\ i' = n - 1
    /\ pc' = "preheat"
    /\ UNCHANGED <<params, dvars, M_brine, M_vapor, S_brine, A_effect, M_steam,
                   M_total_distillate, GOR, As, M_vapor_available, Q_input,
                   results>>

(* one iteration of the backward preheat loop, i = n-1 down to 1 *)
PreheatStep ==
    /\ pc = "preheat"
    /\ i >= 1
    /\ LET target_temp == T_effect[i] - params.TTD_preheater
       IN  IF target_temp > T_feed_in[0]
           THEN LET T_avg_preheat == (target_temp + T_feed_in[0]) \div 2
                    Cp == _specific_heat_capacity(T_avg_preheat, params.S_feed)
                    Q_preheat == SensibleHeat(M_feed[0], Cp,
                                              target_temp - T_feed_in[0])
                    lambda_v == _latent_heat(T_effect[i - 1])
                IN  /\ M_vapor_preheat' = [M_vapor_preheat EXCEPT
                                              ![i - 1] = VaporMass(Q_preheat, lambda_v)]
                    /\ T_feed_in' = [T_feed_in EXCEPT ![0] = target_temp]
           ELSE UNCHANGED <<M_vapor_preheat, T_feed_in>>
    /\ i' = i - 1
    /\ UNCHANGED <<params, pc, dvars, T_effect, M_feed, M_brine, M_vapor,
                   S_brine, A_effect, M_steam, M_total_distillate, GOR, As,
                   S_feed, M_vapor_available, Q_input, results>>

(* lines 116-117: the steam rate from the target distillate and target GOR *)
EstimateSteam ==
    /\ pc = "preheat"
    /\ i < 1
    /\ M_steam' = SteamEstimate
    /\ i' = 0
    /\ pc' = "forward"
    /\ UNCHANGED <<params, dvars, T_effect, M_feed, M_brine, M_vapor, S_brine,
                   A_effect, M_total_distillate, GOR, As, S_feed, T_feed_in,
                   M_vapor_preheat, M_vapor_available, Q_input, results>>

(* heating vapor of effect k > 0: max(0, M_vapor[k-1] - M_vapor_preheat[k-1]) *)
AvailableVapor(k) == Max(0, M_vapor[k - 1] - M_vapor_preheat[k - 1])

(* M_evap = max(0, (Q_input - sensible_heat) / lambda_v) *)
Evaporation(Q_in, sensible_heat, lambda_v) ==
    Max(0, VaporMass(Q_in - sensible_heat, lambda_v))

(* one iteration of the forward pass *)
ForwardStep ==
    /\ pc = "forward"
    /\ i < n
    /\ LET avail == IF i = 0 THEN M_steam ELSE AvailableVapor(i)
           Q_in  == IF i = 0
                    THEN LatentPower(M_steam, _latent_heat(params.T_steam))
                    ELSE LatentPower(avail, _latent_heat(T_effect[i - 1]))
           T_in  == IF i > 0 THEN T_effect[i - 1] ELSE T_feed_in[i]
           lambda_v == _latent_heat(T_effect[i])
           Cp == _specific_heat_capacity(T_in, S_feed[i])
           sensible_heat == Max(0, SensibleHeat(M_feed[i], Cp, T_effect[i] - T_in))
           M_evap == Evaporation(Q_in, sensible_heat, lambda_v)
           brine == M_feed[i] - M_evap
           \* M_brine > 1e-6 kg/s: at least one unit of 1e-4 kg/s
           salinity == IF brine > 0
                       THEN MulDiv(M_feed[i], S_feed[i], brine)
                       ELSE S_feed[i]
           h_e == _heat_transfer_coefficient_evaporator(T_effect[i])
           delta_T_drive == IF i = 0
                            THEN params.T_steam - T_effect[i] - params.BPE
                            ELSE T_effect[i - 1] - T_effect[i] - params.BPE
           area == IF delta_T_drive > 0
                   THEN MulDiv(Q_in, 100, MulDiv(h_e, delta_T_drive, 1000))
                   ELSE 0
       IN  /\ M_vapor_available' = avail
           /\ Q_input' = Q_in
           /\ T_feed_in' = [T_feed_in EXCEPT ![i] = T_in]
           /\ M_vapor' = [M_vapor EXCEPT ![i] = M_evap]
           /\ M_brine' = [M_brine EXCEPT ![i] = brine]
           /\ S_brine' = [S_brine EXCEPT ![i] = salinity]
           /\ A_effect' = [A_effect EXCEPT ![i] = area]
           /\ IF i < n - 1
              THEN /\ M_feed' = [M_feed EXCEPT ![i + 1] = brine]
                   /\ S_feed' = [S_feed EXCEPT ![i + 1] = salinity]
              ELSE UNCHANGED <<M_feed, S_feed>>
    /\ i' = i + 1
    /\ UNCHANGED <<params, pc, dvars, T_effect, M_steam, M_total_distillate,
                   GOR, As, M_vapor_preheat, results>>

(* lines 183-214: the aggregate metrics and the returned dict *)
FinalMetrics ==
    /\ pc = "forward"
    /\ i >= n
    /\ LET total == Sum(M_vapor)
           total_area == Sum(A_effect)
           gor == IF M_steam > 0 THEN MulDiv(total, 1000, M_steam) ELSE 0
           as  == IF total > 0 THEN MulDiv(total_area, 100000, total) ELSE 0
       IN  /\ M_total_distillate' = total
           /\ GOR' = gor
           /\ As' = as
           /\ results' = [GOR |-> gor, As |-> as,
                          M_total_distillate |-> total,
                          M_steam |-> M_steam,
                          Q_nominal_W |-> LatentPower(M_steam,
                                              _latent_heat(params.T_steam)),
                          A_total |-> total_area,
                          WRR |-> FloatDiv(total, params.M_feed, 100000),
                          S_brine_final |-> S_brine[n - 1],
                          T_top |-> T_effect[0]]
    /\ pc' = "done"
    /\ UNCHANGED <<params, dvars, T_effect, M_feed, M_brine, M_vapor, S_brine,
                   A_effect, M_steam, S_feed, T_feed_in, M_vapor_preheat,
                   M_vapor_available, Q_input, i>>

(***************************************************************************)
(* Inputs.                                                                 *)
(***************************************************************************)
MaxEffects == 8        \* trains of 1..MaxEffects effects
LargeTrain == 50       \* and one long train

(* The design points solve is run on: the defaults of MEDParameters and    *)
(* variations of the effect count, feed temperature, cooling-water         *)
(* temperature, feed flow and boiling point elevation.                     *)
SolveParams ==
    [n_effects : (1 .. MaxEffects) \cup {LargeTrain},
     T_steam : {70000}, T_feed : {25000, 70000}, T_cw : {20000, 70000},
     M_feed : {0, 300000}, S_feed : {42000}, BPE : {800, 8000},
     TTD_preheater : {1500}, solar_collector_area : {10000},
     storage_capacity_kWh : {50000}, solar_efficiency : {7}]

(* The defaults of MEDParameters. *)
ReferenceDesign ==
    [n_effects |-> 8, T_steam |-> 70000, T_feed |-> 25000, T_cw |-> 20000,
     M_feed |-> 300000, S_feed |-> 42000, BPE |-> 800,
     TTD_preheater |-> 1500, solar_collector_area |-> 10000,
     storage_capacity_kWh |-> 50000, solar_efficiency |-> 7]

(* The plants the dispatch is run on: the reference train with a small     *)
(* collector field and store, so that every energy is an integer number of *)
(* Joules and every stored energy a multiple of 3600 J.                    *)
DispatchParams ==
    [n_effects : {8}, T_steam : {70000}, T_feed : {25000}, T_cw : {20000},
     M_feed : {300000}, S_feed : {42000}, BPE : {800},
     TTD_preheater : {1500}, solar_collector_area : {10},
     storage_capacity_kWh : {0, 2, 20}, solar_efficiency : {5, 10}]

(* nominal_results['Q_nominal_W'] and nominal_results['GOR'] handed to     *)
(* SolarIntegratedMEDModel.__init__                                        *)
QNominalValues == {0, 5, 10, 15}

GORValues == {0, 1495}

NoResults == [GOR |-> 0, As |-> 0, M_total_distillate |-> 0, M_steam |-> 0,
              Q_nominal_W |-> 0, A_total |-> 0,
              WRR |-> [kind |-> "finite", value |-> 0],
              S_brine_final |-> 0, T_top |-> 0]

NoFinalResults == [daily_distillate |-> 0, Q_nominal_W |-> 0,
                   daily_solar_collection_J |-> 0, hourly_data |-> <<>>]

(* MEDModel.__init__ *)
InitMEDModel ==
    /\ T_effect = Zeros
    /\ M_feed = Zeros
    /\ M_brine = Zeros
    /\ M_vapor = Zeros
    /\ S_brine = Zeros
    /\ A_effect = Zeros
    /\ M_total_distillate = 0
    /\ M_steam = 0
    /\ GOR = 0
    /\ As = 0
    /\ S_feed = Zeros
    /\ T_feed_in = Zeros
    /\ M_vapor_preheat = Zeros
    /\ M_vapor_available = 0
    /\ Q_input = 0
    /\ results = NoResults
    /\ i = 0

(* SolarIntegratedMEDModel.__init__ and the first lines of                 *)
(* simulate_daily_operation                                                *)
InitSolarModel(Q_nom, gor) ==
    /\ Q_nominal_W = Q_nom
    /\ GOR_nominal = gor
    /\ storage_capacity_J = StorageCapacityJ(params.storage_capacity_kWh)
    /\ current_storage_J = StorageCapacityJ(params.storage_capacity_kWh) \div 2
    /\ daily_distillate_kg = 0
    /\ daily_solar_collection_J = 0
    /\ hourly_results = <<>>
    /\ final_results = NoFinalResults

(* ---- the steady-state solver ---- *)
InitSolve ==
    /\ params \in SolveParams
    /\ pc = "solve"
    /\ InitMEDModel
    /\ InitSolarModel(0, 0)

NextSolve ==
    \/ TemperatureLadder
    \/ PreheatStep
    \/ EstimateSteam
    \/ ForwardStep
    \/ FinalMetrics

SpecSolve == InitSolve /\ [][NextSolve]_vars

(* ---- the dispatch simulator ---- *)
InitDispatch ==
    /\ params \in DispatchParams
    /\ pc = "loop"
    /\ InitMEDModel
    /\ \E Q_nom \in QNominalValues, gor \in GORValues : InitSolarModel(Q_nom, gor)

NextDispatch ==
    \/ \E irradiance \in 0 .. MaxIrradiance : SimulateHour(irradiance)
    \/ ReturnDaily

SpecDispatch == InitDispatch /\ [][NextDispatch]_vars

(***************************************************************************)
(* Properties of the dispatch simulator (SpecDispatch).                    *)
(***************************************************************************)
Hours == 1 .. Len(hourly_results)

QSolarOfHour(k) == _solar_heat_input(hourly_results[k].irradiance_W_m2)

InitialStorageJ == StorageCapacityJ(params.storage_capacity_kWh) \div 2

(* C1: after every hourly step the storage level stays within              *)
(* [0, storage_capacity_J], starting from half the capacity.               *)
C1_StorageBound ==
    /\ 0 <= current_storage_J
    /\ current_storage_J <= storage_capacity_J
    /\ \A k \in Hours :
          /\ 0 <= hourly_results[k].storage_MWh
          /\ hourly_results[k].storage_MWh <= StorageMWh(storage_capacity_J)

(* a charging hour with more excess than free room has left the store full *)
C1_Witness ==
    /\ Len(hourly_results) >= 2
    /\ storage_capacity_J > 0
    /\ current_storage_J = storage_capacity_J
    /\ hourly_results[Len(hourly_results)].mode = "Solar + Charge"
    /\ QSolarOfHour(Len(hourly_results)) > Q_nominal_W
    /\ (QSolarOfHour(Len(hourly_results)) - Q_nominal_W) * SECONDS_PER_HOUR
          > storage_capacity_J

(* C2: in an hour with 0 < Q_solar < Q_nom and stored energy at least the  *)
(* hourly deficit, the step is labelled "Solar + Draw", the heat delivered *)
(* is Q_nom, the distillate rate is Q_nom/latent_heat(T_steam)*GOR, and    *)
(* the storage is reduced by the deficit.                                  *)
C2_SolarDrawDeliversNominal ==
    [][ (pc = "loop" /\ Len(hourly_results') = Len(hourly_results) + 1) =>
          LET r == hourly_results'[Len(hourly_results')]
              Q_solar_W == _solar_heat_input(r.irradiance_W_m2)
              Q_draw_J == (Q_nominal_W - Q_solar_W) * SECONDS_PER_HOUR
          IN  (0 < Q_solar_W /\ Q_solar_W < Q_nominal_W
                 /\ current_storage_J >= Q_draw_J)
              => /\ r.mode = "Solar + Draw"
                 /\ r.Q_med_MW = QmedMW(Q_nominal_W)
                 /\ r.distillate_kg_s = DistillateRate(Q_nominal_W)
                 /\ current_storage_J' = current_storage_J - Q_draw_J ]_vars

AllZeroIrradiance == \A k \in Hours : hourly_results[k].irradiance_W_m2 = 0

(* C3: on an all-zero irradiance sequence, starting from half capacity,    *)
(* the plant delivers Q_nom in every hour until the store is exhausted and *)
(* is "Off" from then on; the hours at full output number about            *)
(* storage_capacity_kWh / (Q_nom in kW).  Stated with one hour of slack    *)
(* for the rounding: hour k (counted from 1) is at full output whenever    *)
(* k + 1 <= storage_capacity_kWh * 1000 / Q_nominal_W, and no hour after   *)
(* an "Off" hour is anything but "Off".                                    *)
C3_ZeroIrradianceDepletion ==
    AllZeroIrradiance =>
        /\ \A k \in Hours :
              (k + 1) * Q_nominal_W <= params.storage_capacity_kWh * 1000
                  => hourly_results[k].Q_med_MW = QmedMW(Q_nominal_W)
        /\ \A k \in Hours : \A m \in Hours :
              (k < m /\ hourly_results[k].mode = "Off")
                  => hourly_results[m].mode = "Off"

AllFullSun == \A k \in Hours : QSolarOfHour(k) = Q_nominal_W

(* C9: when every hour's Q_solar equals Q_nom, every hourly record has     *)
(* mode "Solar + Charge", delivers Q_nom, and shows the initial storage    *)
(* level (half the capacity): storage is unchanged hour over hour.         *)
C9_FullSunSteadyState ==
    AllFullSun =>
        /\ current_storage_J = InitialStorageJ
        /\ \A k \in Hours :
              /\ hourly_results[k].mode = "Solar + Charge"
              /\ hourly_results[k].Q_med_MW = QmedMW(Q_nominal_W)
              /\ hourly_results[k].storage_MWh = StorageMWh(InitialStorageJ)

(* several full-sun hours of a plant with a demand and a store *)
C9_Witness ==
    /\ Len(hourly_results) >= 2
    /\ AllFullSun
    /\ Q_nominal_W > 0
    /\ storage_capacity_J > 0

(* C10: the capacity in Joules is storage_capacity_kWh * J_TO_KWH, so the  *)
(* storage_MWh of an hourly record times 1000 is the stored energy in kWh: *)
(* storage_capacity_kWh / 2 while the store is at its initial level and    *)
(* storage_capacity_kWh when it is full.  (storage_MWh is held in units of *)
(* 1e-6 MWh, that is 1e-3 kWh.)                                            *)
C10_StorageUnit ==
    Len(hourly_results) >= 1 =>
        LET r == hourly_results[Len(hourly_results)]
        IN  /\ storage_capacity_J = params.storage_capacity_kWh * J_TO_KWH
            /\ current_storage_J = InitialStorageJ
                  => 2 * r.storage_MWh = 1000 * params.storage_capacity_kWh
            /\ current_storage_J = storage_capacity_J
                  => r.storage_MWh = 1000 * params.storage_capacity_kWh

(***************************************************************************)
(* Properties of the steady-state solver (SpecSolve).                      *)
(***************************************************************************)
LadderComputed == pc # "solve"

Solved == pc = "done"

StrictlyDecreasingLadder ==
    \A k \in 0 .. (n - 2) : T_effect[k] > T_effect[k + 1]

(* the available temperature drop exceeds the boiling point elevations *)
PositiveDrivingForce == (params.T_steam - params.T_cw) > n * params.BPE

(* C4: after solve, for every preheat stage k in 0..n-2 the vapor          *)
(* extracted from effect k for preheating does not exceed the vapor effect *)
(* k produces, and the heating vapor of effect k+1 is the remainder.       *)
(* Stated for the default design point.                                    *)
C4_PreheatWithinVapor ==
    (Solved /\ params = ReferenceDesign) =>
        \A k \in 0 .. (n - 2) :
            /\ M_vapor_preheat[k] <= M_vapor[k]
            /\ AvailableVapor(k + 1) = M_vapor[k] - M_vapor_preheat[k]

(* C5: at the default design point solve returns a GOR within 7 percent    *)
(* of 5.14.                                                                *)
C5_ReferenceGOR ==
    (Solved /\ params = ReferenceDesign) =>
        /\ 100 * (results.GOR - 5140) <= 7 * 5140
        /\ 100 * (5140 - results.GOR) <= 7 * 5140

(* C6 as claimed: for every parameter set the temperature ladder is        *)
(* strictly decreasing.                                                    *)
C6_LadderDecreasing == LadderComputed => StrictlyDecreasingLadder

(* C6 amended: the temperature ladder is strictly decreasing whenever      *)
(* T_steam - T_cw exceeds n * BPE.                                         *)
C6_LadderDecreasingWithDrivingForce ==
    (LadderComputed /\ PositiveDrivingForce) => StrictlyDecreasingLadder

(* a ladder of several effects computed for a design with driving force *)
C6_Witness ==
    /\ LadderComputed
    /\ PositiveDrivingForce
    /\ n >= 3
    /\ T_effect[0] > T_effect[n - 1]

DrivingDeltaT(k) ==
    IF k = 0 THEN params.T_steam - T_effect[k] - params.BPE
    ELSE T_effect[k - 1] - T_effect[k] - params.BPE

(* C7: solve divides by no zero denominator: with zero steam GOR is 0,     *)
(* with zero distillate the specific area is 0, with zero feed flow the    *)
(* water recovery ratio is 0, and an effect without positive driving       *)
(* temperature difference has area 0.                                      *)
C7_NoZeroDivision ==
    Solved =>
        /\ results.WRR.kind = "finite"
        /\ M_steam = 0 => results.GOR = 0
        /\ M_total_distillate = 0 => results.As = 0
        /\ params.M_feed = 0 => results.WRR.value = 0
        /\ \A k \in Effects : DrivingDeltaT(k) <= 0 => A_effect[k] = 0

InOperatingRange(T) == 20000 <= T /\ T <= 80000

(* the inputs C8 is about, and among them those with a feasible ladder *)
ValidInput ==
    /\ n >= 1
    /\ params.M_feed >= 0
    /\ InOperatingRange(params.T_steam)
    /\ InOperatingRange(params.T_feed)
    /\ InOperatingRange(params.T_cw)
    /\ PositiveDrivingForce

(* C8: for a valid input, after solve every effect has vapor >= 0,         *)
(* brine = feed - vapor >= 0 and area >= 0.                                *)
C8_NonNegativeFlows ==
    (Solved /\ ValidInput) =>
        \A k \in Effects :
            /\ M_vapor[k] >= 0
            /\ M_brine[k] = M_feed[k] - M_vapor[k]
            /\ M_brine[k] >= 0
            /\ A_effect[k] >= 0

====
